---- MODULE Spec2Model ----
(***************************************************************************)
(* Model of src/8_Concurrency_in_Rust.rs: main() builds an                 *)
(* Arc<Mutex<i32>> holding 0, spawns ten threads that each lock the mutex, *)
(* add one and double the value, joins the threads in spawn order and      *)
(* prints the value read under the lock.                                   *)
(*                                                                         *)
(* Each thread (and main) is a process with a position pc[p]; one action   *)
(* is one statement of the source.  The mutex is modelled by the set of    *)
(* parties that own a live MutexGuard and by its poison flag.              *)
(***************************************************************************)
EXTENDS Integers, Sequences, FiniteSets

\* for _ in 0..10
NumWorkers == 10

\* i32::MAX: Mutex::new(0) holds an i32 (integer literal fallback)
IntMax == 2147483647
IntMin == (-IntMax) - 1
HalfRange == 1073741824

Main == 0
Workers == 1..NumWorkers
Parties == 0..NumWorkers

VARIABLES
    value,            \* the i32 inside the Mutex
    poisoned,         \* the Mutex's poison flag
    holders,          \* parties owning a live MutexGuard
    pc,               \* position of main and of every thread
    handles,          \* the Vec<JoinHandle>, as thread numbers in push order
    joined,           \* number of handles main has joined
    printed,          \* what println! wrote: <<>> or <<v>>
    overflow_checks   \* build profile: TRUE = debug (panic), FALSE = release (wrap)

vars == <<value, poisoned, holders, pc, handles, joined, printed, overflow_checks>>

----------------------------------------------------------------------------
\* i32 arithmetic of `*num += 1` and `*num *= 2`, exact results only

Add1Lost(x) == x
Add1(x) == x + 1

Mul2Triple(x) == x * 3
Mul2(x) == x * 2

AddOverflows(x) == x = IntMax
MulOverflows(x) == x >= HalfRange \/ x < -HalfRange

\* two's complement wrap-around of x + 1 and x * 2, computed inside 32 bits
WrapAdd1(x) == IF x = IntMax THEN IntMin ELSE x + 1
WrapMul2(x) ==
    IF x >= HalfRange THEN (((x - HalfRange) * 2) - HalfRange) - HalfRange
    ELSE IF x < -HalfRange THEN (((x + HalfRange) * 2) + HalfRange) + HalfRange
    ELSE x * 2

----------------------------------------------------------------------------
\* the mutex

LockFreeBroken == TRUE
LockFree == holders = {}

\* lock() returns Ok(guard) unless the mutex is poisoned
LockOkIgnorePoison == TRUE
LockOk == ~poisoned

\* a thread has finished when its closure returned or its panic unwound
Finished(h) == pc[h] \in {"completed", "failed"}

\* join() returns Ok(()) for a thread that returned, Err for one that panicked
JoinOkIgnoreFailure(h) == TRUE
JoinOk(h) == pc[h] = "completed"

\* the process lives until main has unwound from a panic and exited
Alive == pc[Main] # "exited"

----------------------------------------------------------------------------
Init ==
    /\ value = 0
    /\ poisoned = FALSE
    /\ holders = {}
    /\ pc = [p \in Parties |-> IF p = Main THEN "spawning" ELSE "unspawned"]
    /\ handles = <<>>
    /\ joined = 0
    /\ printed = <<>>
    /\ overflow_checks \in BOOLEAN

\* one iteration of the spawn loop: thread::spawn and handles.push
Spawn ==
    /\ pc[Main] = "spawning"
    /\ LET w == Len(handles) + 1 IN
        /\ handles' = Append(handles, w)
        /\ pc' = [pc EXCEPT ![w] = "ready",
                            ![Main] = IF w = NumWorkers THEN "joining" ELSE "spawning"]
    /\ UNCHANGED <<value, poisoned, holders, joined, printed, overflow_checks>>

\* counter.lock().unwrap(): blocks until the mutex is free; on a poisoned
\* mutex the guard comes back inside the Err and unwrap panics
Lock(p) ==
    /\ Alive
    /\ pc[p] = IF p = Main THEN "reading" ELSE "ready"
    /\ LockFree
    /\ holders' = holders \cup {p}
    /\ pc' = [pc EXCEPT ![p] = IF LockOk THEN "locked" ELSE "unwinding"]
    /\ UNCHANGED <<value, poisoned, handles, joined, printed, overflow_checks>>

\* *num += 1
AddStepReleases(w) ==
    /\ Alive
    /\ w \in Workers
    /\ pc[w] = "locked"
    /\ pc' = [pc EXCEPT ![w] = "added"]
    /\ value' = Add1(value)
    /\ holders' = holders \ {w}
    /\ UNCHANGED <<poisoned, handles, joined, printed, overflow_checks>>
AddStep(w) ==
    /\ Alive
    /\ w \in Workers
    /\ pc[w] = "locked"
    /\ IF AddOverflows(value)
       THEN IF overflow_checks
            THEN /\ pc' = [pc EXCEPT ![w] = "unwinding"]
                 /\ value' = value
            ELSE /\ pc' = [pc EXCEPT ![w] = "added"]
                 /\ value' = WrapAdd1(value)
       ELSE /\ pc' = [pc EXCEPT ![w] = "added"]
            /\ value' = Add1(value)
    /\ UNCHANGED <<poisoned, holders, handles, joined, printed, overflow_checks>>

\* *num *= 2
MulStep(w) ==
    /\ Alive
    /\ w \in Workers
    /\ pc[w] = "added"
    /\ IF MulOverflows(value)
       THEN IF overflow_checks
            THEN /\ pc' = [pc EXCEPT ![w] = "unwinding"]
                 /\ value' = value
            ELSE /\ pc' = [pc EXCEPT ![w] = "multiplied"]
                 /\ value' = WrapMul2(value)
       ELSE /\ pc' = [pc EXCEPT ![w] = "multiplied"]
            /\ value' = Mul2(value)
    /\ UNCHANGED <<poisoned, holders, handles, joined, printed, overflow_checks>>

\* the guard goes out of scope: end of the closure, end of the println! statement
UnlockKeepsGuard(p) ==
    /\ Alive
    /\ pc[p] = IF p = Main THEN "printed" ELSE "multiplied"
    /\ pc' = [pc EXCEPT ![p] = IF p = Main THEN "done" ELSE "completed"]
    /\ UNCHANGED <<value, poisoned, holders, handles, joined, printed, overflow_checks>>
Unlock(p) ==
    /\ Alive
    /\ pc[p] = IF p = Main THEN "printed" ELSE "multiplied"
    /\ holders' = holders \ {p}
    /\ pc' = [pc EXCEPT ![p] = IF p = Main THEN "done" ELSE "completed"]
    /\ UNCHANGED <<value, poisoned, handles, joined, printed, overflow_checks>>

\* a panic unwinds the stack: the guard is dropped by a panicking thread,
\* which poisons the mutex and unlocks it
UnwindLeaksGuard(p) ==
    /\ Alive
    /\ pc[p] = "unwinding"
    /\ poisoned' = TRUE
    /\ pc' = [pc EXCEPT ![p] = IF p = Main THEN "panicked" ELSE "failed"]
    /\ UNCHANGED <<value, holders, handles, joined, printed, overflow_checks>>
Unwind(p) ==
    /\ Alive
    /\ pc[p] = "unwinding"
    /\ holders' = holders \ {p}
    /\ poisoned' = TRUE
    /\ pc' = [pc EXCEPT ![p] = IF p = Main THEN "panicked" ELSE "failed"]
    /\ UNCHANGED <<value, handles, joined, printed, overflow_checks>>

\* handle.join().unwrap() on the next handle of the vector
JoinNoWait ==
    /\ pc[Main] = "joining"
    /\ joined' = joined + 1
    /\ pc' = [pc EXCEPT ![Main] =
                IF joined + 1 = NumWorkers THEN "reading" ELSE "joining"]
    /\ UNCHANGED <<value, poisoned, holders, handles, printed, overflow_checks>>
JoinOffByOne ==
    /\ pc[Main] = "joining"
    /\ LET h == handles[joined + 1] IN
        /\ Finished(h)
        /\ IF JoinOk(h)
           THEN /\ joined' = joined + 1
                /\ pc' = [pc EXCEPT ![Main] =
                            IF joined + 1 >= NumWorkers - 1 THEN "reading" ELSE "joining"]
           ELSE /\ joined' = joined
                /\ pc' = [pc EXCEPT ![Main] = "panicked"]
    /\ UNCHANGED <<value, poisoned, holders, handles, printed, overflow_checks>>
Join ==
    /\ pc[Main] = "joining"
    /\ LET h == handles[joined + 1] IN
        /\ Finished(h)
        /\ IF JoinOk(h)
           THEN /\ joined' = joined + 1
                /\ pc' = [pc EXCEPT ![Main] =
                            IF joined + 1 = NumWorkers THEN "reading" ELSE "joining"]
           ELSE /\ joined' = joined
                /\ pc' = [pc EXCEPT ![Main] = "panicked"]
    /\ UNCHANGED <<value, poisoned, holders, handles, printed, overflow_checks>>

\* println!("Result: {}", *guard)
Println ==
    /\ pc[Main] = "locked"
    /\ printed' = <<value>>
    /\ pc' = [pc EXCEPT ![Main] = "printed"]
    /\ UNCHANGED <<value, poisoned, holders, handles, joined, overflow_checks>>

\* main has panicked: the process exits and takes the other threads with it
ProcessExit ==
    /\ pc[Main] = "panicked"
    /\ pc' = [pc EXCEPT ![Main] = "exited"]
    /\ UNCHANGED <<value, poisoned, holders, handles, joined, printed, overflow_checks>>

MainStep == Spawn \/ Join \/ Lock(Main) \/ Println \/ Unlock(Main)
WorkerStep(w) == Lock(w) \/ AddStep(w) \/ MulStep(w) \/ Unlock(w)

\* the steps the program takes from Mutex::new(0)
Next ==
    \/ Spawn
    \/ Join
    \/ Println
    \/ \E p \in Parties : Lock(p)
    \/ \E p \in Parties : Unlock(p)
    \/ \E w \in Workers : AddStep(w)
    \/ \E w \in Workers : MulStep(w)

Spec == Init /\ [][Next]_vars

\* scheduling: the OS runs every runnable thread eventually
FairSpec == Spec /\ WF_vars(MainStep) /\ \A w \in Workers : WF_vars(WorkerStep(w))

----------------------------------------------------------------------------
\* The same code with the counter constructed near the top of the i32 range,
\* where `*num += 1` or `*num *= 2` overflows: a debug build panics inside
\* the critical section, a release build wraps.  The values are those the
\* update produces from 0 after 20 and 25 applications, the first value whose
\* doubling overflows, and i32::MAX, whose increment overflows.
InitialValues == {0, 2097150, 67108862, 1073741823, IntMax}

InitOverflow ==
    /\ value \in InitialValues
    /\ poisoned = FALSE
    /\ holders = {}
    /\ pc = [p \in Parties |-> IF p = Main THEN "spawning" ELSE "unspawned"]
    /\ handles = <<>>
    /\ joined = 0
    /\ printed = <<>>
    /\ overflow_checks \in BOOLEAN

NextOverflow ==
    \/ Next
    \/ \E p \in Parties : Unwind(p)
    \/ ProcessExit

SpecOverflow == InitOverflow /\ [][NextOverflow]_vars

----------------------------------------------------------------------------
\* The closure body as one function, and its n-fold serial application
Update(x) == (x + 1) * 2

RECURSIVE ApplyN(_, _)
ApplyN(n, v) == IF n = 0 THEN v ELSE ApplyN(n - 1, Update(v))

Completed == {w \in Workers : pc[w] = "completed"}
Failed == {w \in Workers : pc[w] = "failed"}

\* positions from which the next statement reads or writes the counter value
Accessing(p) == pc[p] \in {"locked", "added"}

----------------------------------------------------------------------------
\* C1: at most one party (worker or driver) owns the lock at any time, and a
\* party that is about to read or write the counter value is the one owning it.
C1_MutualExclusion ==
    /\ Cardinality(holders) <= 1
    /\ \A p \in Parties : Accessing(p) => holders = {p}

\* a worker is between its two writes while another worker waits for the lock
C1_Witness ==
    \E w, u \in Workers : pc[w] = "added" /\ holders = {w} /\ pc[u] = "ready"

\* C2: when all workers have completed and the driver is done, the value it
\* read is the update applied NumWorkers times in sequence to the initial
\* value 0: no update is lost or applied twice.
C2_NoLostUpdate ==
    pc[Main] = "done" => printed = <<ApplyN(NumWorkers, 0)>>

C2_Witness ==
    pc[Main] = "done" /\ Completed = Workers /\ Len(printed) = 1

\* C3 (as stated): the final value depends on the interleaving order, so a run
\* whose last critical section is not that of the last spawned worker ends
\* with a value other than the 2046 of the run in spawn order.
C3_OrderSensitive ==
    \A w \in Workers :
        (w # NumWorkers /\ pc[w] = "multiplied" /\ Completed = Workers \ {w})
            => value # 2046

\* C3 (amended): the final value is 2046 in every interleaving, whichever
\* worker's critical section comes last.
C3_OrderInsensitive ==
    /\ \A w \in Workers :
        (pc[w] = "multiplied" /\ Completed = Workers \ {w}) => value = 2046
    /\ pc[Main] = "done" => printed = <<2046>>

\* the first spawned worker runs its critical section last
C3_Witness ==
    pc[1] = "multiplied" /\ Completed = Workers \ {1} /\ value = 2046

\* C4: the driver takes the lock for its final read, reads and prints only
\* when every spawned worker has terminated, released the lock and been joined.
C4_ReadAfterBarrier ==
    (pc[Main] \in {"reading", "locked", "printed", "done"}
        \/ Main \in holders \/ printed # <<>>)
    => /\ joined = NumWorkers
       /\ \A w \in Workers : pc[w] \in {"completed", "failed"} /\ w \notin holders

C4_Witness ==
    pc[Main] = "printed" /\ Main \in holders /\ joined = NumWorkers

\* C5: the driver never joins past a failed worker: every handle it has
\* joined belongs to a completed worker, a driver that failed did so on the
\* first failed worker in join order, and once a worker has failed the driver
\* neither reads, prints nor reaches done.
C5_FailFast ==
    /\ \A i \in 1..joined : pc[handles[i]] = "completed"
    /\ pc[Main] \in {"panicked", "exited"} =>
            joined < NumWorkers /\ pc[handles[joined + 1]] = "failed"
    /\ Failed # {} =>
            /\ pc[Main] \notin {"locked", "printed", "done"}
            /\ printed = <<>>

\* the driver has joined some workers, then failed on a later one
C5_Witness ==
    pc[Main] = "exited" /\ joined > 0 /\ pc[handles[joined + 1]] = "failed"

\* C6: once the lock is poisoned, no step reads or changes the counter value
\* or prints it, nobody is inside the critical section, and every party that
\* then takes the lock fails.
C6_PoisonIsFatal ==
    [][poisoned =>
          /\ value' = value
          /\ printed' = printed
          /\ \A p \in Parties :
                /\ ~Accessing(p)
                /\ (pc[p] \in {"ready", "reading"} /\ pc'[p] # pc[p])
                        => pc'[p] = "unwinding"]_vars

\* a second worker has failed, which it can only do on the poisoned lock
C6_Witness ==
    poisoned /\ Cardinality(Failed) >= 2

\* C7: no worker that has reached a terminal state, completed or failed,
\* still owns the lock.
C7_ReleasedOnExit ==
    \A w \in Workers : pc[w] \in {"completed", "failed"} => w \notin holders

\* one worker left normally, another by a panic, and the lock is free
C7_Witness ==
    Completed # {} /\ Failed # {} /\ holders = {}

\* C8: under weak fairness of the driver and of every worker, every worker
\* completes and the driver reaches done, and every state before that has a
\* step to take.
C8_Terminates ==
    /\ [](pc[Main] # "done" => ENABLED Next)
    /\ <>(pc[Main] = "done" /\ Completed = Workers /\ holders = {})

C8_Witness ==
    pc[Main] = "done" /\ holders = {} /\ joined = NumWorkers

\* C9: whenever the lock is free or its owner has not yet written, the value
\* is the update applied k times to 0, k the number of workers that have
\* left their critical section; the driver prints such a value too.
C9_WholeUpdatesOnly ==
    LET k == Cardinality(Completed) IN
        /\ holders = {} => value = ApplyN(k, 0)
        /\ \A p \in Parties : pc[p] = "locked" => value = ApplyN(k, 0)
        /\ printed # <<>> => printed = <<ApplyN(k, 0)>>

\* the half-done value exists while its writer owns the lock and others wait
C9_Witness ==
    \E w, u \in Workers :
        /\ pc[w] = "added" /\ pc[u] = "ready"
        /\ value = ApplyN(Cardinality(Completed), 0) + 1
        /\ Cardinality(Completed) >= 2

\* C10: from 0 with ten workers the value stays within 0..2046, no addition
\* or doubling overflows the i32 range and no worker panics.
C10_NoOverflow ==
    /\ value \in 0..2046
    /\ \A w \in Workers :
        /\ pc[w] = "locked" => ~AddOverflows(value)
        /\ pc[w] = "added" => ~MulOverflows(value)
    /\ \A p \in Parties : pc[p] \notin {"unwinding", "failed", "panicked", "exited"}
    /\ ~poisoned

C10_Witness ==
    value = 2046 /\ \E w \in Workers : pc[w] = "multiplied"

====
